---- MODULE Spec2Model ----
(***************************************************************************)
(* Model of the clinic patient registry of src/1.py: the class             *)
(* ClinicManagementSystem (the in-memory list self.patients, the JSON      *)
(* file self.filename) and one iteration of the menu loop run() per        *)
(* action.                                                                 *)
(*                                                                         *)
(* A Python str is a tuple of one-character strings, so that strip(),      *)
(* lower(), int() and the substring test are computed and never assumed.   *)
(* The Cyrillic literals of the source are transliterated: the answer      *)
(* "да" is <<"d","a">>, the genders "Мужской"/"Женский" are Male/Female.   *)
(***************************************************************************)
EXTENDS Integers, Sequences, FiniteSets

VARIABLES
    patients,   \* self.patients: the list of Patient objects
    file,       \* the backing file self.filename
    out,        \* what the last menu iteration printed (messages, in order)
    op,         \* the handler the last menu iteration ran
    inp,        \* the lines the last handler was given on stdin
    offered,    \* edit only: for every field, the stripped text typed at its prompt
    saved,      \* outcome of the save_patients call of the last iteration
    preSave,    \* self.patients at the moment save_patients was last called
    alive       \* the process is still in its menu loop

vars == <<patients, file, out, op, inp, offered, saved, preSave, alive>>

---------------------------------------------------------------------------
(* Bounds of the model.                                                    *)

\* add is not offered once get_next_id() exceeds this id
MaxId == 3

---------------------------------------------------------------------------
(* Python values.                                                          *)

\* the None object; no str equals it, a str being a tuple of single characters
None == <<"None">>
\* a line of stdin that is not valid UTF-8: input() raises UnicodeDecodeError
BadBytes == <<"BadBytes">>
\* edit bookkeeping: the prompt of the field was never reached
NotOffered == <<"NotOffered">>

Male == <<"M", "a", "l", "e">>
Female == <<"F", "e", "m", "a", "l", "e">>
Da == <<"d", "a">>

\* truth value of a str or None, as `x or y` and `if not x` test it
Truthy(v) == v # <<>> /\ v # None

\* x or y
Or(x, y) == IF Truthy(x) THEN x ELSE y

RECURSIVE LStrip(_)
LStrip(s) == IF s # <<>> /\ Head(s) = " " THEN LStrip(Tail(s)) ELSE s

RECURSIVE RStrip(_)
RStrip(s) ==
    IF s # <<>> /\ s[Len(s)] = " " THEN RStrip(SubSeq(s, 1, Len(s) - 1)) ELSE s

\* str.strip()
Strip(s) == RStrip(LStrip(s))

LowerChar(c) ==
    CASE c = "A" -> "a"
      [] c = "B" -> "b"
      [] c = "D" -> "d"
      [] c = "M" -> "m"
      [] c = "F" -> "f"
      [] OTHER -> c

\* str.lower()
Lower(s) == [i \in 1..Len(s) |-> LowerChar(s[i])]

\* t in s, for two str
IsSubstr(t, s) ==
    \E i \in 0..(Len(s) - Len(t)) : SubSeq(s, i + 1, i + Len(t)) = t

DigitVal(c) ==
    CASE c = "0" -> 0
      [] c = "1" -> 1
      [] c = "2" -> 2
      [] c = "3" -> 3
      [] c = "4" -> 4
      [] OTHER -> -1

RECURSIVE DigitsVal(_, _)
DigitsVal(s, acc) ==
    IF s = <<>> THEN acc ELSE DigitsVal(Tail(s), 10 * acc + DigitVal(Head(s)))

AllDigits(s) == s # <<>> /\ \A i \in 1..Len(s) : DigitVal(s[i]) >= 0

\* int(s): [ok, n]; ok = FALSE stands for ValueError
ParseInt(s) ==
    LET t == Strip(s)
        neg == t # <<>> /\ Head(t) = "-"
        pos == t # <<>> /\ Head(t) = "+"
        d == IF neg \/ pos THEN Tail(t) ELSE t
    IN  IF AllDigits(d)
        THEN [ok |-> TRUE, n |-> IF neg THEN 0 - DigitsVal(d, 0) ELSE DigitsVal(d, 0)]
        ELSE [ok |-> FALSE, n |-> 0]

\* input(): the i-th line of the handler's stdin, or the exception raised
Input(lines, i) ==
    IF i > Len(lines) THEN [exc |-> "EOFError", line |-> <<>>]
    ELSE IF lines[i] = BadBytes THEN [exc |-> "UnicodeDecodeError", line |-> <<>>]
    ELSE [exc |-> "none", line |-> lines[i]]

---------------------------------------------------------------------------
(* The Patient dataclass and its JSON form.                                *)

Fields == <<"id", "last_name", "first_name", "middle_name", "birth_date",
            "gender", "address", "phone", "email", "insurance_number",
            "registration_date", "medical_history", "diagnosis",
            "attending_doctor">>

FieldSet == {Fields[i] : i \in 1..Len(Fields)}

\* json.dump of one attribute value
JsonValue(f, v) ==
    IF f = "id" THEN [t |-> "number", v |-> v]
    ELSE IF v = None THEN [t |-> "null", v |-> <<>>]
    ELSE [t |-> "string", v |-> v]

\* asdict(patient), as the JSON object json.dump writes
asdict(p) == [f \in FieldSet |-> JsonValue(f, p[f])]

\* json.load of one attribute value with null read as the empty string
PyValueEmpty(j) == j.v

\* json.load of one attribute value
PyValue(j) == IF j.t = "null" THEN None ELSE j.v

\* Patient(**patient): raises TypeError unless the keys are exactly the fields
PatientOk(obj) == DOMAIN obj = FieldSet
Patient(obj) == [f \in FieldSet |-> PyValue(obj[f])]

ToJson(ps) == [i \in 1..Len(ps) |-> asdict(ps[i])]

\* no file
Missing == [exists |-> FALSE, complete |-> FALSE, items |-> <<>>]

\* the file holding the complete JSON text of the list js
Snapshot(js) == [exists |-> TRUE, complete |-> TRUE, items |-> js]

\* the file after open(..., 'w') emptied it and json.dump raised before the
\* closing bracket was written: a proper prefix of the JSON text (the
\* objects of the prefix are not kept, json.load rejects every such prefix)
Truncated == [exists |-> TRUE, complete |-> FALSE, items |-> <<>>]

---------------------------------------------------------------------------
(* Messages printed by the handlers (the text of each print, by name).     *)

Printed(msg, o) == \E i \in 1..Len(o) : o[i] = msg

---------------------------------------------------------------------------
(* Persistence: load_patients and save_patients.                           *)

\* what the file system does to one save: "ok", "open_fails" (open raises,
\* the file is untouched) or "write_fails" (open emptied the file and
\* json.dump raised part-way)
IOOutcomes == {"ok", "open_fails", "write_fails"}

\* json.load(f) followed by [Patient(**patient) for patient in data] succeeds
Parses(f) == f.complete /\ \A i \in 1..Len(f.items) : PatientOk(f.items[i])

\* load_patients whose except clause prints the error and keeps the list
load_patients_keep(ps, f) ==
    IF f.exists
    THEN IF Parses(f)
         THEN [patients |-> [i \in 1..Len(f.items) |-> Patient(f.items[i])],
               out |-> <<"Loaded">>]
         ELSE [patients |-> ps, out |-> <<"LoadError">>]
    ELSE [patients |-> <<>>, out |-> <<>>]

load_patients(ps, f) ==
    IF f.exists
    THEN IF Parses(f)
         THEN [patients |-> [i \in 1..Len(f.items) |-> Patient(f.items[i])],
               out |-> <<"Loaded">>]
         ELSE [patients |-> <<>>, out |-> <<"LoadError">>]
    ELSE [patients |-> <<>>, out |-> <<>>]

\* save_patients with an except clause that also resets the list, as the
\* except clause of load_patients does
save_patients_reset(ps, f, io) ==
    CASE io = "ok" ->
           [patients |-> ps, file |-> Snapshot(ToJson(ps)),
            out |-> <<"Saved">>, saved |-> "ok"]
      [] io = "open_fails" ->
           [patients |-> <<>>, file |-> f,
            out |-> <<"SaveError">>, saved |-> "failed"]
      [] OTHER ->
           [patients |-> <<>>, file |-> Truncated,
            out |-> <<"SaveError">>, saved |-> "failed"]

save_patients(ps, f, io) ==
    CASE io = "ok" ->
           [patients |-> ps, file |-> Snapshot(ToJson(ps)),
            out |-> <<"Saved">>, saved |-> "ok"]
      [] io = "open_fails" ->
           [patients |-> ps, file |-> f,
            out |-> <<"SaveError">>, saved |-> "failed"]
      [] OTHER ->
           [patients |-> ps, file |-> Truncated,
            out |-> <<"SaveError">>, saved |-> "failed"]

---------------------------------------------------------------------------
(* Registry helpers.                                                       *)

RECURSIVE MaxIdOf(_)
MaxIdOf(ps) ==
    IF Len(ps) = 1 THEN ps[1].id
    ELSE LET m == MaxIdOf(Tail(ps)) IN IF ps[1].id > m THEN ps[1].id ELSE m

\* get_next_id as the number of patients plus one
get_next_id_count(ps) == Len(ps) + 1

\* get_next_id as the smallest id no patient holds
get_next_id_free(ps) ==
    CHOOSE n \in 1..(Len(ps) + 1) :
        /\ \A i \in 1..Len(ps) : ps[i].id # n
        /\ \A m \in 1..(n - 1) : \E i \in 1..Len(ps) : ps[i].id = m

get_next_id(ps) == IF ps = <<>> THEN 1 ELSE MaxIdOf(ps) + 1

\* [p for p in self.patients if p.id == search_id]
find_by_id(ps, id) == SelectSeq(ps, LAMBDA p : p.id = id)

\* index of next((p for p in self.patients if p.id == patient_id), None); 0 for None
IndexOfId(ps, id) ==
    IF \E i \in 1..Len(ps) : ps[i].id = id
    THEN CHOOSE i \in 1..Len(ps) :
            ps[i].id = id /\ \A j \in 1..(i - 1) : ps[j].id # id
    ELSE 0

\* delete by position: self.patients.pop(patient_id - 1)
RemoveAt(ps, id) ==
    IF id \in 1..Len(ps)
    THEN SubSeq(ps, 1, id - 1) \o SubSeq(ps, id + 1, Len(ps))
    ELSE ps

\* [p for p in self.patients if p.id != patient_id]
RemoveId(ps, id) == SelectSeq(ps, LAMBDA p : p.id # id)

RECURSIVE select_gender(_, _)
select_gender(lines, i) ==
    LET r == Input(lines, i) IN
    IF r.exc # "none" THEN [exc |-> r.exc, value |-> None, next |-> i]
    ELSE IF Strip(r.line) = <<"1">> THEN [exc |-> "none", value |-> Male, next |-> i + 1]
    ELSE IF Strip(r.line) = <<"2">> THEN [exc |-> "none", value |-> Female, next |-> i + 1]
    ELSE select_gender(lines, i + 1)

---------------------------------------------------------------------------
(* add_patient.                                                            *)

\* the prompts of add_patient, in order ("gender" is the select_gender call)
AddPrompts == <<"last_name", "first_name", "middle_name", "birth_date", "gender",
                "address", "phone", "email", "insurance_number",
                "medical_history", "diagnosis", "attending_doctor">>

\* the fields built with `input(...).strip() or None`
OptionalFields == {"middle_name", "email"}

RECURSIVE ReadDraft(_, _, _, _)
ReadDraft(lines, i, k, d) ==
    IF k > Len(AddPrompts) THEN [exc |-> "none", draft |-> d]
    ELSE LET f == AddPrompts[k] IN
         IF f = "gender"
         THEN LET g == select_gender(lines, i) IN
              IF g.exc # "none" THEN [exc |-> g.exc, draft |-> d]
              ELSE ReadDraft(lines, g.next, k + 1, [d EXCEPT ![f] = g.value])
         ELSE LET r == Input(lines, i) IN
              IF r.exc # "none" THEN [exc |-> r.exc, draft |-> d]
              ELSE ReadDraft(lines, i + 1, k + 1,
                       [d EXCEPT ![f] = IF f \in OptionalFields
                                        THEN Or(Strip(r.line), None)
                                        ELSE Strip(r.line)])

add_patient(ps, f, lines, now, io) ==
    LET d0 == [x \in FieldSet |->
                  IF x = "id" THEN get_next_id(ps)
                  ELSE IF x = "registration_date" THEN now ELSE <<>>]
        r == ReadDraft(lines, 1, 1, d0)
    IN  IF r.exc # "none"
        THEN [patients |-> ps, file |-> f, out |-> <<"AddError">>,
              saved |-> "none", preSave |-> ps, eof |-> r.exc = "EOFError"]
        ELSE LET appended == Append(ps, r.draft)
                 s == save_patients(appended, f, io)
             IN  [patients |-> s.patients, file |-> s.file,
                  out |-> s.out \o <<"Added">>, saved |-> s.saved,
                  preSave |-> appended, eof |-> FALSE]

---------------------------------------------------------------------------
(* edit_patient.                                                           *)

PersonalPrompts == <<"last_name", "first_name", "middle_name", "birth_date", "gender">>
ContactPrompts == <<"address", "phone", "email", "insurance_number">>
MedicalPrompts == <<"medical_history", "diagnosis", "attending_doctor">>

\* the prompts edit_patient goes through for a menu choice ("gender" is the
\* question whether to change the gender, then select_gender)
EditPrompts(choice) ==
    (IF choice \in {<<"1">>, <<"4">>} THEN PersonalPrompts ELSE <<>>)
    \o (IF choice \in {<<"2">>, <<"4">>} THEN ContactPrompts ELSE <<>>)
    \o (IF choice \in {<<"3">>, <<"4">>} THEN MedicalPrompts ELSE <<>>)

NothingOffered == [f \in FieldSet |-> NotOffered]

\* patient.f = input(...).strip(), without the `or patient.f`
EditFieldClear(p, f, typed) == [p EXCEPT ![f] = typed]

\* patient.f = input(...).strip() or patient.f
EditField(p, f, typed) == [p EXCEPT ![f] = Or(typed, p[f])]

\* the assignments of edit_patient, made on the object in the list one by one;
\* an exception of input() stops them where it is raised
RECURSIVE ApplyEdit(_, _, _, _, _, _)
ApplyEdit(p, prompts, k, lines, i, off) ==
    IF k > Len(prompts) THEN [exc |-> "none", p |-> p, offered |-> off]
    ELSE LET f == prompts[k]
             r == Input(lines, i)
         IN  IF r.exc # "none" THEN [exc |-> r.exc, p |-> p, offered |-> off]
             ELSE IF f = "gender"
             THEN IF Lower(Strip(r.line)) = Da
                  THEN LET g == select_gender(lines, i + 1) IN
                       IF g.exc # "none" THEN [exc |-> g.exc, p |-> p, offered |-> off]
                       ELSE ApplyEdit([p EXCEPT ![f] = g.value], prompts, k + 1,
                                      lines, g.next, [off EXCEPT ![f] = g.value])
                  ELSE ApplyEdit(p, prompts, k + 1, lines, i + 1, off)
             ELSE ApplyEdit(EditField(p, f, Strip(r.line)), prompts, k + 1,
                            lines, i + 1, [off EXCEPT ![f] = Strip(r.line)])

\* the except clauses of edit_patient and delete_patient: UnicodeDecodeError
\* is a ValueError
Handler(exc, other) ==
    IF exc = "UnicodeDecodeError" THEN <<"IdMustBeNumber">> ELSE <<other>>

edit_patient(ps, f, lines, io) ==
    LET r1 == Input(lines, 1)
        id == ParseInt(r1.line)
        idx == IndexOfId(ps, id.n)
        r2 == Input(lines, 2)
        e == ApplyEdit(ps[idx], EditPrompts(Strip(r2.line)), 1, lines, 3, NothingOffered)
        edited == [ps EXCEPT ![idx] = e.p]
        s == save_patients(edited, f, io)
        quiet(o, x) == [patients |-> ps, file |-> f, out |-> o, saved |-> "none",
                        preSave |-> ps, offered |-> NothingOffered, eof |-> x]
    IN  IF r1.exc # "none" THEN quiet(Handler(r1.exc, "EditError"), r1.exc = "EOFError")
        ELSE IF ~id.ok THEN quiet(<<"IdMustBeNumber">>, FALSE)
        ELSE IF idx = 0 THEN quiet(<<"NotFound">>, FALSE)
        ELSE IF r2.exc # "none"
        THEN quiet(<<"Display">> \o Handler(r2.exc, "EditError"), r2.exc = "EOFError")
        ELSE IF e.exc # "none"
        THEN [patients |-> edited, file |-> f,
              out |-> <<"Display">> \o Handler(e.exc, "EditError"),
              saved |-> "none", preSave |-> edited, offered |-> e.offered,
              eof |-> e.exc = "EOFError"]
        ELSE [patients |-> s.patients, file |-> s.file,
              out |-> <<"Display">> \o s.out \o <<"Updated">>,
              saved |-> s.saved, preSave |-> edited, offered |-> e.offered,
              eof |-> FALSE]

---------------------------------------------------------------------------
(* delete_patient.                                                         *)

delete_patient(ps, f, lines, io) ==
    LET r1 == Input(lines, 1)
        id == ParseInt(r1.line)
        idx == IndexOfId(ps, id.n)
        r2 == Input(lines, 2)
        rest == RemoveId(ps, id.n)
        s == save_patients(rest, f, io)
        quiet(o, x) == [patients |-> ps, file |-> f, out |-> o, saved |-> "none",
                        preSave |-> ps, eof |-> x]
    IN  IF r1.exc # "none" THEN quiet(Handler(r1.exc, "DeleteError"), r1.exc = "EOFError")
        ELSE IF ~id.ok THEN quiet(<<"IdMustBeNumber">>, FALSE)
        ELSE IF idx = 0 THEN quiet(<<"NotFound">>, FALSE)
        ELSE IF r2.exc # "none"
        THEN quiet(<<"Display">> \o Handler(r2.exc, "DeleteError"), r2.exc = "EOFError")
        ELSE IF Lower(Strip(r2.line)) = Da
        THEN [patients |-> s.patients, file |-> s.file,
              out |-> <<"Display">> \o s.out \o <<"Deleted">>,
              saved |-> s.saved, preSave |-> rest, eof |-> FALSE]
        ELSE quiet(<<"Display", "Cancelled">>, FALSE)

---------------------------------------------------------------------------
(* find_patient: it changes nothing, out tells what it printed.  An        *)
(* exception of input() is not caught here but by run().                   *)

find_patient(ps, lines) ==
    LET r1 == Input(lines, 1)
        r2 == Input(lines, 2)
        choice == Strip(r1.line)
        term == Lower(Strip(r2.line))
        id == ParseInt(term)
        by(field) == SelectSeq(ps, LAMBDA p : IsSubstr(term, Lower(p[field])))
        found == CASE choice = <<"1">> -> by("last_name")
                   [] choice = <<"2">> -> IF id.ok THEN find_by_id(ps, id.n) ELSE <<>>
                   [] choice = <<"3">> -> by("insurance_number")
                   [] OTHER -> by("phone")
        report == IF found # <<>> THEN <<"Found">> ELSE <<"NoneFound">>
    IN  IF r1.exc # "none" THEN [out |-> <<"RunError">>, eof |-> r1.exc = "EOFError"]
        ELSE IF r2.exc # "none" THEN [out |-> <<"RunError">>, eof |-> r2.exc = "EOFError"]
        ELSE IF choice \notin {<<"1">>, <<"2">>, <<"3">>, <<"4">>}
        THEN [out |-> <<"BadChoice">>, eof |-> FALSE]
        ELSE IF choice = <<"2">> /\ ~id.ok
        THEN [out |-> <<"IdMustBeNumber">> \o report, eof |-> FALSE]
        ELSE [out |-> report, eof |-> FALSE]

---------------------------------------------------------------------------
(* The inputs the model draws: what the operator types, and the clock.     *)

Blank == <<>>
Spaces == <<" ">>
No == <<"n">>

\* datetime.now().strftime("%d.%m.%Y %H:%M"), the text of the clock
Times == {<<"t">>}

\* the twelve answers of add_patient: every text t, the optional ones o,
\* and the lines g typed at select_gender
AddLines(t, o, g) == <<t, t, o, t>> \o g \o <<t, t, o, t, t, t, t>>

\* answers for the personal and contact prompts up to the email
Typed(g) == << <<"b">>, <<"b", " ">>, <<"m">>, <<"b">> >> \o g \o << <<"b">>, <<"b">>, <<"m">> >>

AddScripts ==
    {AddLines(<<"A">>, Blank, << <<"1">> >>),
     Typed(<< <<"3">>, <<" ", "2">> >>) \o << <<"A">>, <<" ", "A">>, <<"A">>, <<"A">> >>,
     << <<"a">>, <<"a">> >>,
     << <<"a">>, BadBytes >>}

\* id lines that int() accepts and that may name a patient
GoodIdLines == {<<"1">>, <<" ", "2">>, <<"3">>}
\* id lines without a patient behind them, or that int() rejects
BadIdLines == {<<"0">>, <<"-", "1">>, <<"x">>, BadBytes}

\* what is typed after the id in edit_patient: the choice and the answers
EditRests ==
    {<<<<"4">>>> \o Typed(<< <<"D", "a">>, <<"2">> >>) \o <<Blank, Blank, Spaces, Blank>>,
     <<<<"4">>>> \o Typed(<< <<"D", "a">>, <<"2">> >>) \o <<BadBytes>>,
     <<<<"4">>>> \o Typed(<< <<"D", "a">>, <<"2">> >>),
     <<<<"4">>>> \o AddLines(Blank, Spaces, <<No>>),
     << <<"1">>, Blank, Blank, Blank, Blank, No >>,
     << <<"5">> >>}

EditScripts ==
    {<<l>> : l \in BadIdLines} \cup {<<l>> \o r : l \in GoodIdLines, r \in EditRests}

DeleteScripts ==
    {<<l>> : l \in BadIdLines \ {<<"0">>, BadBytes}} \cup {<<>>}
    \cup {<<l>> \o r : l \in GoodIdLines, r \in {<<Da>>, <<No>>}}

FindScripts ==
    {<< <<"2">>, l >> : l \in {<<"1">>, <<"2", " ">>, <<"0">>, <<"x">>}}
    \cup {<< <<"1">>, <<"a">> >>, << <<"4">>, <<"B">> >>,
          << <<"7">>, <<"a">> >>, << <<"3">>, BadBytes >>}

---------------------------------------------------------------------------
(* The state machine: Init is __init__, every action one iteration of the  *)
(* loop of run() with its menu choice.                                     *)

\* the input("Нажмите Enter...") calls that end an iteration of run(): once a
\* handler met end of input, a piped stdin stays at its end and the process
\* ends with the EOFError, a terminal may still deliver the line
AfterEOF(eof) == IF eof THEN BOOLEAN ELSE {TRUE}

Init ==
    /\ file \in {Missing, Snapshot(<<>>)}
    /\ patients = load_patients(<<>>, file).patients
    /\ out = load_patients(<<>>, file).out
    /\ op = "init"
    /\ inp = <<>>
    /\ offered = NothingOffered
    /\ saved = "none"
    /\ preSave = patients
    /\ alive = TRUE

Add ==
    /\ alive
    /\ op = "menu"
    /\ get_next_id(patients) <= MaxId
    /\ \E lines \in AddScripts, now \in Times, io \in IOOutcomes :
         \E r \in {add_patient(patients, file, lines, now, io)} :
         /\ patients' = r.patients
         /\ file' = r.file
         /\ out' = r.out
         /\ saved' = r.saved
         /\ preSave' = r.preSave
         /\ inp' = lines
         /\ alive' \in AfterEOF(r.eof)
    /\ op' = "add"
    /\ offered' = NothingOffered

Find ==
    /\ alive
    /\ op = "menu"
    /\ \E lines \in FindScripts :
         \E r \in {find_patient(patients, lines)} :
         /\ out' = r.out
         /\ inp' = lines
         /\ alive' \in AfterEOF(r.eof)
    /\ op' = "find"
    /\ saved' = "none"
    /\ preSave' = patients
    /\ offered' = NothingOffered
    /\ UNCHANGED <<patients, file>>

Edit ==
    /\ alive
    /\ op = "menu"
    /\ \E lines \in EditScripts, io \in IOOutcomes :
         \E r \in {edit_patient(patients, file, lines, io)} :
         /\ patients' = r.patients
         /\ file' = r.file
         /\ out' = r.out
         /\ saved' = r.saved
         /\ preSave' = r.preSave
         /\ offered' = r.offered
         /\ inp' = lines
         /\ alive' \in AfterEOF(r.eof)
    /\ op' = "edit"

Delete ==
    /\ alive
    /\ op = "menu"
    /\ \E lines \in DeleteScripts, io \in IOOutcomes :
         \E r \in {delete_patient(patients, file, lines, io)} :
         /\ patients' = r.patients
         /\ file' = r.file
         /\ out' = r.out
         /\ saved' = r.saved
         /\ preSave' = r.preSave
         /\ inp' = lines
         /\ alive' \in AfterEOF(r.eof)
    /\ op' = "delete"
    /\ offered' = NothingOffered

Save ==
    /\ alive
    /\ op = "menu"
    /\ \E io \in IOOutcomes :
         \E s \in {save_patients(patients, file, io)} :
         /\ patients' = s.patients
         /\ file' = s.file
         /\ out' = s.out
         /\ saved' = s.saved
    /\ preSave' = patients
    /\ op' = "save"
    /\ inp' = <<>>
    /\ offered' = NothingOffered
    /\ alive' = TRUE

Load ==
    /\ alive
    /\ op = "menu"
    /\ \E r \in {load_patients(patients, file)} :
         /\ patients' = r.patients
         /\ out' = r.out
         /\ preSave' = r.patients
    /\ op' = "load"
    /\ inp' = <<>>
    /\ saved' = "none"
    /\ offered' = NothingOffered
    /\ alive' = TRUE
    /\ UNCHANGED file

\* choice "0": save_patients, then break
Exit ==
    /\ alive
    /\ op = "menu"
    /\ \E io \in IOOutcomes :
         \E s \in {save_patients(patients, file, io)} :
         /\ patients' = s.patients
         /\ file' = s.file
         /\ out' = s.out
         /\ saved' = s.saved
    /\ preSave' = patients
    /\ op' = "exit"
    /\ inp' = <<>>
    /\ offered' = NothingOffered
    /\ alive' = FALSE

\* the top of the loop of run(): display_menu and the read of the next choice
Menu ==
    /\ alive
    /\ op # "menu"
    /\ op' = "menu"
    /\ out' = <<>>
    /\ inp' = <<>>
    /\ offered' = NothingOffered
    /\ saved' = "none"
    /\ preSave' = patients
    /\ UNCHANGED <<patients, file, alive>>

Next == Menu \/ Add \/ Find \/ Edit \/ Delete \/ Save \/ Load \/ Exit

Spec == Init /\ [][Next]_vars

---------------------------------------------------------------------------
(* Properties.                                                             *)

\* the id typed on line l, when l is text that int() accepts; 0 otherwise
\* (no patient has id 0)
TypedId(lines, k) ==
    IF k <= Len(lines) /\ lines[k] # BadBytes /\ ParseInt(lines[k]).ok
    THEN ParseInt(lines[k]).n
    ELSE 0

\* the fields edit_patient may assign
Editable == FieldSet \ {"id", "registration_date"}

\* what a load of file f yields
Loaded(f) == load_patients(<<>>, f).patients

\* C1: in every reachable state no two patients of the list have the same
\* id, and every id is a positive integer.
C1_IdsUniquePositive ==
    \A i \in 1..Len(patients) :
        /\ patients[i].id \in Nat
        /\ patients[i].id >= 1
        /\ \A j \in 1..Len(patients) : i # j => patients[i].id # patients[j].id

\* a load brought back two patients, the first of which has id 2: patient 1
\* was added, saved and deleted before
C1_Witness ==
    /\ op = "load"
    /\ Printed("Loaded", out)
    /\ Len(patients) = 2
    /\ patients[1].id = 2
    /\ patients[2].id = 3

\* C2: an add that completes appends exactly one patient to the list as it
\* was; the new id is 1 when the list was empty and otherwise the largest
\* id of the list plus one, hence an id no patient of the list holds, also
\* after deletions.  An add stopped by an input error appends nothing.
C2_AddAssignsNextId ==
    [][op' = "add" =>
        IF Printed("Added", out')
        THEN /\ Len(patients') = Len(patients) + 1
             /\ SubSeq(patients', 1, Len(patients)) = patients
             /\ LET n == patients'[Len(patients')].id IN
                  /\ patients = <<>> => n = 1
                  /\ patients # <<>> =>
                       /\ \E i \in 1..Len(patients) : patients[i].id = n - 1
                       /\ \A i \in 1..Len(patients) : patients[i].id < n
        ELSE patients' = patients]_vars

\* patient 3 was added to a list that held only patient 2, patient 1 having
\* been deleted
C2_Witness ==
    /\ op = "add"
    /\ Printed("Added", out)
    /\ Len(patients) = 2
    /\ patients[1].id = 2
    /\ patients[2].id = 3
    /\ patients[2].middle_name = None

\* C3: an edit leaves the length and order of the list, every id and every
\* registration date as they were, leaves every patient but the one whose id
\* was typed untouched, and in that one changes exactly the fields at whose
\* prompt a non-blank text was typed, to that text; an edit of an id no
\* patient holds prints not-found and leaves the list unchanged.
C3_EditChangesOnlyTypedFields ==
    [][op' = "edit" =>
        /\ Len(patients') = Len(patients)
        /\ Printed("NotFound", out') => patients' = patients
        /\ \A i \in 1..Len(patients) :
             /\ patients'[i].id = patients[i].id
             /\ patients'[i].registration_date = patients[i].registration_date
             /\ patients[i].id # TypedId(inp', 1) => patients'[i] = patients[i]
             /\ \A f \in Editable :
                  patients'[i][f] =
                     IF patients[i].id = TypedId(inp', 1)
                        /\ offered'[f] # NotOffered /\ offered'[f] # <<>>
                     THEN offered'[f]
                     ELSE patients[i][f]]_vars

\* patient 2 of two was edited: the last name was typed, the prompt of the
\* insurance number was answered with a blank line, patient 1 is another
C3_Witness ==
    /\ op = "edit"
    /\ Printed("Updated", out)
    /\ TypedId(inp, 1) = 2
    /\ offered["last_name"] = <<"b">>
    /\ offered["insurance_number"] = <<>>
    /\ Len(patients) = 2
    /\ patients[1].last_name = <<"A">>
    /\ patients[2].id = 2
    /\ patients[2].last_name = <<"b">>
    /\ patients[2].insurance_number = <<"A">>

\* C4: after a confirmed delete the lookup by the typed id finds nothing and
\* the list is the old list without that one patient, the others in their
\* order; a delete of an id no patient holds prints not-found and leaves the
\* list and the file as they were.
C4_DeleteRemovesOne ==
    [][op' = "delete" =>
        /\ Printed("Deleted", out') =>
             /\ find_by_id(patients', TypedId(inp', 1)) = <<>>
             /\ \E k \in 1..Len(patients) :
                  /\ patients[k].id = TypedId(inp', 1)
                  /\ patients' = SubSeq(patients, 1, k - 1)
                                 \o SubSeq(patients, k + 1, Len(patients))
        /\ Printed("NotFound", out') => patients' = patients /\ file' = file
        /\ ~Printed("Deleted", out') => patients' = patients]_vars

\* patient 2 was deleted from between patients 1 and 3
C4_Witness ==
    /\ op = "delete"
    /\ Printed("Deleted", out)
    /\ TypedId(inp, 1) = 2
    /\ Len(patients) = 2
    /\ patients[1].id = 1
    /\ patients[2].id = 3

\* C5: when the save of an add, edit, delete or of the save command fails,
\* the error is printed, the list is the one save_patients was called on,
\* and the menu loop goes on.
C5_FailedSaveKeepsList ==
    (saved = "failed" /\ op \in {"add", "edit", "delete", "save"}) =>
        /\ Printed("SaveError", out)
        /\ patients = preSave
        /\ alive

\* the save of a delete failed part-way, one patient is left in the list
C5_Witness ==
    /\ saved = "failed"
    /\ op = "delete"
    /\ file = Truncated
    /\ Len(patients) = 1
    /\ Len(preSave) = 1

\* C6: every step leaves the file as it was or leaves it holding the
\* complete snapshot of the list; the file never holds a truncated text.
C6_SaveAtomic ==
    [][/\ file' = file \/ (Parses(file') /\ Loaded(file') = patients')
       /\ file'.exists => Parses(file')]_vars

IdLine ==
    IF op \in {"edit", "delete"} /\ Len(inp) >= 1 /\ inp[1] # BadBytes
    THEN <<inp[1]>>
    ELSE IF op = "find" /\ Len(inp) >= 2 /\ inp[1] # BadBytes
            /\ inp[2] # BadBytes /\ Strip(inp[1]) = <<"2">>
    THEN <<inp[2]>>
    ELSE <<>>

\* C8: find by id, edit and delete answer an id line that is not a positive
\* integer (text, zero, a negative number) with the validation message and
\* without the not-found message, and leave the list unchanged.
C8_IdValidatedBeforeLookup ==
    [][(IdLine' # <<>> /\ ~(ParseInt(IdLine'[1]).ok /\ ParseInt(IdLine'[1]).n > 0)) =>
          /\ Printed("IdMustBeNumber", out')
          /\ ~Printed("NotFound", out')
          /\ ~Printed("NoneFound", out')
          /\ patients' = patients]_vars

\* C9: a load of the file that a successful save of the list writes yields
\* the list again, patient for patient and attribute for attribute, None
\* staying None.
C9_RoundTrip ==
    [][(op' = "load" /\ file = save_patients(patients, file, "ok").file) =>
          patients' = patients /\ Printed("Loaded", out')]_vars

\* a load brought back a patient without middle name and email and one
\* with both
C9_Witness ==
    /\ op = "load"
    /\ Printed("Loaded", out)
    /\ Len(patients) = 2
    /\ patients[1].middle_name = None
    /\ patients[1].email = None
    /\ patients[2].middle_name = <<"m">>
    /\ patients[2].email = <<"m">>
    /\ file = save_patients(patients, file, "ok").file

\* C10: whenever add, edit or delete changed the list and returned to the
\* menu loop without a failed save, the file holds the snapshot of the list.
C10_MutationPersisted ==
    [][(op' \in {"add", "edit", "delete"} /\ alive'
        /\ patients' # patients /\ saved' # "failed") =>
          Parses(file') /\ Loaded(file') = patients']_vars

====
